---- MODULE Spec2Model ----
(***************************************************************************)
(* Model of src/main.py: the schema wiring and the AST rewrite passes of   *)
(* pb_models_to_pydantic_models, run in the order of lines 537-568.        *)
(*                                                                         *)
(* Representation.                                                         *)
(*  - An identifier that the code inspects by suffix (class names and the  *)
(*    names in type annotations) is the sequence of its words:             *)
(*    "BookRecord" is <<"Book","Record">>, "Status1" is <<"Status","1">>.  *)
(*    str.endswith(s) is "the last word is s"; a digit is a word of its    *)
(*    own.  Field names, enum member names and schema names are only       *)
(*    compared for equality and stay strings.                              *)
(*  - An ast node is a record with a tag k:                                *)
(*      Name(id)  Subscript(value, slice)  Tuple(elts)  Attribute(value,   *)
(*      attr)                              -- type expressions             *)
(*      Import(module)  Class(name, bases, body)  Field(name, ann)         *)
(*      Member(name, value)                -- statements                   *)
(*    Field is ast.AnnAssign with a Name target, Member is ast.Assign with *)
(*    one Name target.                                                     *)
(*  - A Python dict is a sequence of <<key, value>> pairs in insertion     *)
(*    order with unique keys.                                              *)
(*  - A collectionRef is a reference to an entity of the schema list: the  *)
(*    index of that entity in the list, 0 when the key is absent.          *)
(***************************************************************************)
EXTENDS Integers, Sequences, FiniteSets, TLC

\* ------------------------------------------------------------------ bounds

\* Deepest nesting of wrappers (Optional[..], Union[.., ..]) around a leaf of
\* an input annotation.
MaxWrap == 2

\* Highest numeric suffix of an input enum fragment (Status, Status1, ...).
MaxFrag == 2

\* ------------------------------------------------------------ identifiers

W(w) == <<w>>

RecordIdString == W("RecordIdString")

Digits == {"0", "1", "2", "3", "4", "5", "6", "7", "8", "9"}

DigitWord(i) == CASE i = 0 -> "0" [] i = 1 -> "1" [] i = 2 -> "2" [] i = 3 -> "3"
                  [] i = 4 -> "4" [] i = 5 -> "5" [] i = 6 -> "6" [] i = 7 -> "7"
                  [] i = 8 -> "8" [] OTHER -> "9"

EndsWith(name, suf) == Len(name) >= 1 /\ name[Len(name)] = suf

Front(name) == SubSeq(name, 1, Len(name) - 1)

\* ------------------------------------------------------- sequence helpers

Range(s) == {s[i] : i \in DOMAIN s}

RECURSIVE Filter(_, _)
\* [x for x in s if x in keep], keep given as the set of kept indices
Filter(s, keepIdx) ==
    IF s = <<>> THEN <<>>
    ELSE LET n == Len(s)
             rest == Filter(SubSeq(s, 1, n - 1), keepIdx)
         IN IF n \in keepIdx THEN Append(rest, s[n]) ELSE rest

\* ---------------------------------------------------------------- dicts

DictKeys(d) == {d[i][1] : i \in DOMAIN d}

DictHas(d, key) == key \in DictKeys(d)

DictGet(d, key) == d[CHOOSE i \in DOMAIN d : d[i][1] = key][2]

\* d[key] = val: a new key goes last, an old key keeps its place
DictSet(d, key, val) ==
    IF DictHas(d, key)
    THEN [i \in DOMAIN d |-> IF d[i][1] = key THEN <<key, val>> ELSE d[i]]
    ELSE Append(d, <<key, val>>)

\* ------------------------------------------------------- type expressions

Name(id) == [k |-> "Name", id |-> id]
Subscript(v, s) == [k |-> "Subscript", value |-> v, slice |-> s]
Tuple(es) == [k |-> "Tuple", elts |-> es]
Attribute(v, a) == [k |-> "Attribute", value |-> v, attr |-> a]

Optional(e) == Subscript(Name(W("Optional")), e)
Union(es) == Subscript(Name(W("Union")), Tuple(es))

RECURSIVE NamesIn(_)
\* the ids of the ast.Name nodes of an expression (ast.walk)
NamesIn(e) ==
    CASE e.k = "Name" -> {e.id}
      [] e.k = "Subscript" -> NamesIn(e.value) \cup NamesIn(e.slice)
      [] e.k = "Tuple" -> UNION {NamesIn(e.elts[i]) : i \in DOMAIN e.elts}
      [] e.k = "Attribute" -> NamesIn(e.value)
      [] OTHER -> {}

RECURSIVE RenameExpr(_, _, _)
\* every ast.Name whose id is in olds gets id = new
RenameExpr(e, olds, new) ==
    CASE e.k = "Name" -> IF e.id \in olds THEN Name(new) ELSE e
      [] e.k = "Subscript" ->
           Subscript(RenameExpr(e.value, olds, new), RenameExpr(e.slice, olds, new))
      [] e.k = "Tuple" ->
           Tuple([i \in DOMAIN e.elts |-> RenameExpr(e.elts[i], olds, new)])
      [] e.k = "Attribute" -> Attribute(RenameExpr(e.value, olds, new), e.attr)
      [] OTHER -> e

\* ------------------------------------------------------------- statements

Import(m) == [k |-> "Import", module |-> m]
Class(n, bs, b) == [k |-> "Class", name |-> n, bases |-> bs, body |-> b]
Field(n, a) == [k |-> "Field", name |-> n, ann |-> a]
Member(n, v) == [k |-> "Member", name |-> n, value |-> v]

IsClass(s) == s.k = "Class"

IsEnum(s) ==
    IsClass(s) /\ \E i \in DOMAIN s.bases :
                      s.bases[i].k = "Name" /\ s.bases[i].id = W("Enum")

RECURSIVE StmtNames(_)
\* the ids of the ast.Name nodes under a statement that name types: base
\* classes and annotations, nested classes included
StmtNames(s) ==
    CASE s.k = "Class" ->
           UNION {NamesIn(s.bases[i]) : i \in DOMAIN s.bases}
             \cup UNION {StmtNames(s.body[i]) : i \in DOMAIN s.body}
      [] s.k = "Field" -> NamesIn(s.ann)
      [] OTHER -> {}

RECURSIVE RenameStmt(_, _, _, _)
\* under statement s: every ast.Name whose id is in olds gets id = new, and
\* with classesToo every ClassDef whose name is in olds is renamed as well
RenameStmt(s, olds, new, classesToo) ==
    CASE s.k = "Class" ->
           Class(IF classesToo /\ s.name \in olds THEN new ELSE s.name,
                 [i \in DOMAIN s.bases |-> RenameExpr(s.bases[i], olds, new)],
                 [i \in DOMAIN s.body |->
                    RenameStmt(s.body[i], olds, new, classesToo)])
      [] s.k = "Field" -> Field(s.name, RenameExpr(s.ann, olds, new))
      [] OTHER -> s

RECURSIVE WalkClasses(_)
\* the ClassDef nodes under a statement list in ast.walk order (breadth
\* first: a level's classes in order, then the classes nested in them)
WalkClasses(stmts) ==
    LET idx == {i \in DOMAIN stmts : IsClass(stmts[i])}
        cs == Filter(stmts, idx)
        RECURSIVE Bodies(_)
        Bodies(q) == IF q = <<>> THEN <<>> ELSE Head(q).body \o Bodies(Tail(q))
    IN IF cs = <<>> THEN <<>> ELSE cs \o WalkClasses(Bodies(cs))

\* ------------------------------------------------------------ Schema Graph

NoRef == 0
NoId == "none"

SchemaField(n, t, cid) ==
    [name |-> n, type |-> t, collectionId |-> cid, collectionRef |-> NoRef]

Entity(id, n, fs) == [id |-> id, name |-> n, fields |-> fs]

\* lookup = {col["id"]: col for col in pb_schema}: a later entity with the
\* same id replaces an earlier one
Lookup(pb_schema, id) ==
    LET hits == {i \in DOMAIN pb_schema : pb_schema[i].id = id}
    IN IF hits = {} THEN NoRef ELSE CHOOSE i \in hits : \A j \in hits : j <= i

\* WireField without the test of the field's type
WireFieldLoose(pb_schema, f) ==
    IF Lookup(pb_schema, f.collectionId) # NoRef
    THEN [f EXCEPT !.collectionRef = Lookup(pb_schema, f.collectionId)]
    ELSE f

\* the body of the loop over the fields of one entity
WireField(pb_schema, f) ==
    IF f.type = "relation" /\ Lookup(pb_schema, f.collectionId) # NoRef
    THEN [f EXCEPT !.collectionRef = Lookup(pb_schema, f.collectionId)]
    ELSE f

wire_pbschema_references(pb_schema) ==
    [e \in DOMAIN pb_schema |->
       [pb_schema[e] EXCEPT !.fields =
          [i \in DOMAIN pb_schema[e].fields |->
             WireField(pb_schema, pb_schema[e].fields[i])]]]

\* ------------------------------------------------------- structural passes

remove_classes(body, classes) ==
    Filter(body, {i \in DOMAIN body :
                    ~(IsClass(body[i]) /\ body[i].name \in classes)})

remove_classes_with_suffixes(body, suffixes) ==
    Filter(body, {i \in DOMAIN body :
                    ~(IsClass(body[i]) /\
                      \E suf \in suffixes : EndsWith(body[i].name, suf))})

\* sufix_map is the ordered list of <<old, new>>; the first old that the
\* name ends with is cut off and new put in its place
RECURSIVE RenameSuffix(_, _)
RenameSuffix(name, sufix_map) ==
    IF sufix_map = <<>> THEN name
    ELSE IF EndsWith(name, Head(sufix_map)[1])
         THEN Front(name) \o Head(sufix_map)[2]
         ELSE RenameSuffix(name, Tail(sufix_map))

RECURSIVE SuffixStmt(_, _)
SuffixStmt(s, sufix_map) ==
    IF IsClass(s)
    THEN Class(RenameSuffix(s.name, sufix_map), s.bases,
               [i \in DOMAIN s.body |-> SuffixStmt(s.body[i], sufix_map)])
    ELSE s

replace_class_suffixes(body, sufix_map) ==
    [i \in DOMAIN body |-> SuffixStmt(body[i], sufix_map)]

RECURSIVE ConfigStmt(_)
ConfigStmt(s) ==
    IF IsClass(s)
    THEN LET kept == Filter(s.body,
                       {i \in DOMAIN s.body :
                          ~(IsClass(s.body[i]) /\ s.body[i].name = W("Config"))})
         IN Class(s.name, s.bases, [i \in DOMAIN kept |-> ConfigStmt(kept[i])])
    ELSE s

remove_config_classes(body) == [i \in DOMAIN body |-> ConfigStmt(body[i])]

\* the new import nodes go right after the last import of the body, at the
\* top when it has none
add_imports(body, import_nodes) ==
    LET imps == {i \in DOMAIN body : body[i].k = "Import"}
        last_import_idx == IF imps = {} THEN 0
                           ELSE CHOOSE i \in imps : \A j \in imps : j <= i
    IN SubSeq(body, 1, last_import_idx) \o import_nodes
         \o SubSeq(body, last_import_idx + 1, Len(body))

rename_classes(body, old, new) ==
    [i \in DOMAIN body |-> RenameStmt(body[i], {old}, new, TRUE)]

RECURSIVE replace_types(_, _)
\* rename_map is the ordered list of <<old, new>>
replace_types(body, rename_map) ==
    IF rename_map = <<>> THEN body
    ELSE replace_types(
           rename_classes(remove_classes(body, {Head(rename_map)[1]}),
                          Head(rename_map)[1], Head(rename_map)[2]),
           Tail(rename_map))

\* ------------------------------------------------------ Identity Registry

\* type_name stays None when the annotation names no class
NoneName == W("<None>")

\* the class an index field names: the annotation itself, or the slice of a
\* one-level wrapper
TypeName(ann) ==
    CASE ann.k = "Name" -> ann.id
      [] ann.k = "Subscript" ->
           IF ann.slice.k = "Name" THEN ann.slice.id ELSE NoneName
      [] OTHER -> NoneName

StripRecord(type_name) ==
    IF type_name # NoneName /\ EndsWith(type_name, "Record")
    THEN Front(type_name) ELSE type_name

RECURSIVE IndexMapping(_, _)
IndexMapping(stmts, mapping) ==
    IF stmts = <<>> THEN mapping
    ELSE IndexMapping(Tail(stmts),
           IF Head(stmts).k = "Field"
           THEN DictSet(mapping, Head(stmts).name,
                        StripRecord(TypeName(Head(stmts).ann)))
           ELSE mapping)

get_classnames_original_collection_names(body) ==
    LET cs == WalkClasses(body)
        hits == {i \in DOMAIN cs : cs[i].name = W("Collection")}
    IN IF hits = {} THEN <<>>
       ELSE IndexMapping(cs[CHOOSE i \in hits : \A j \in hits : i <= j].body, <<>>)

\* {v: k for k, v in d.items()}, read at class_name: the last key that maps
\* to it
Reversed(d, class_name) ==
    LET hits == {i \in DOMAIN d : d[i][2] = class_name}
    IN d[CHOOSE i \in hits : \A j \in hits : j <= i][1]

DictValues(d) == {d[i][2] : i \in DOMAIN d}

\* ------------------------------------------------------ Relation Resolution

\* whether recursive_replace reaches a Name RecordIdString in the
\* expression: it descends through Subscript (value and slice) and
\* Tuple/List elements and returns every other node as it is
RECURSIVE ReachesPlaceholder(_)
ReachesPlaceholder(node) ==
    CASE node.k = "Name" -> node.id = RecordIdString
      [] node.k = "Subscript" ->
           ReachesPlaceholder(node.value) \/ ReachesPlaceholder(node.slice)
      [] node.k = "Tuple" ->
           \E i \in DOMAIN node.elts : ReachesPlaceholder(node.elts[i])
      [] OTHER -> FALSE

EntityIndex(pb_schema, entity_name) ==
    LET hits == {i \in DOMAIN pb_schema : pb_schema[i].name = entity_name}
    IN IF hits = {} THEN 0 ELSE CHOOSE i \in hits : \A j \in hits : i <= j

FieldIndex(fields, field_name) ==
    LET hits == {i \in DOMAIN fields : fields[i].name = field_name}
    IN IF hits = {} THEN 0 ELSE CHOOSE i \in hits : \A j \in hits : i <= j

\* Resolve with the two dereferences guarded: a missing collectionRef or
\* registry entry leaves the placeholder where it is
ResolveGuarded(pb_schema, registry, class_name, field_name) ==
    IF class_name \notin DictValues(registry)
    THEN [err |-> "KeyError", id |-> RecordIdString]
    ELSE LET e == EntityIndex(pb_schema, Reversed(registry, class_name))
         IN IF e = 0 THEN [err |-> "StopIteration", id |-> RecordIdString]
            ELSE LET f == FieldIndex(pb_schema[e].fields, field_name)
                 IN IF f = 0 THEN [err |-> "StopIteration", id |-> RecordIdString]
                    ELSE LET ref == pb_schema[e].fields[f].collectionRef
                         IN IF ref = NoRef
                            THEN [err |-> "none", id |-> RecordIdString]
                            ELSE IF ~DictHas(registry, pb_schema[ref].name)
                                 THEN [err |-> "none", id |-> RecordIdString]
                                 ELSE [err |-> "none",
                                       id |-> DictGet(registry, pb_schema[ref].name)]

\* The base case of recursive_replace for a placeholder of field field_name
\* of class class_name: [err, id], err the exception raised ("none" when the
\* lookups succeed) and id the class name that replaces the placeholder.
\* reversed_dict[...] and classnames_...[...] raise KeyError, next(...)
\* raises StopIteration, None["name"] raises TypeError.
Resolve(pb_schema, registry, class_name, field_name) ==
    IF class_name \notin DictValues(registry)
    THEN [err |-> "KeyError", id |-> RecordIdString]
    ELSE LET e == EntityIndex(pb_schema, Reversed(registry, class_name))
         IN IF e = 0 THEN [err |-> "StopIteration", id |-> RecordIdString]
            ELSE LET f == FieldIndex(pb_schema[e].fields, field_name)
                 IN IF f = 0 THEN [err |-> "StopIteration", id |-> RecordIdString]
                    ELSE LET ref == pb_schema[e].fields[f].collectionRef
                         IN IF ref = NoRef
                            THEN [err |-> "TypeError", id |-> RecordIdString]
                            ELSE IF ~DictHas(registry, pb_schema[ref].name)
                                 THEN [err |-> "KeyError", id |-> RecordIdString]
                                 ELSE [err |-> "none",
                                       id |-> DictGet(registry, pb_schema[ref].name)]

RECURSIVE ReplaceShallow(_, _)
\* recursive_replace that follows the slice of a Subscript only
ReplaceShallow(node, class_name) ==
    CASE node.k = "Name" ->
           IF node.id = RecordIdString THEN Name(class_name) ELSE node
      [] node.k = "Subscript" ->
           Subscript(node.value, ReplaceShallow(node.slice, class_name))
      [] OTHER -> node

RECURSIVE recursive_replace(_, _)
\* class_name is what the base case returns for this field
recursive_replace(node, class_name) ==
    CASE node.k = "Name" ->
           IF node.id = RecordIdString THEN Name(class_name) ELSE node
      [] node.k = "Subscript" ->
           Subscript(recursive_replace(node.value, class_name),
                     recursive_replace(node.slice, class_name))
      [] node.k = "Tuple" ->
           Tuple([i \in DOMAIN node.elts |->
                    recursive_replace(node.elts[i], class_name)])
      [] OTHER -> node

\* the exceptions the pass raises, in the order in which the walk would
\* meet them: one entry per field whose annotation reaches a placeholder
\* that cannot be resolved
RelationErrors(body, pb_schema, registry) ==
    LET cs == WalkClasses(body)
        RECURSIVE OfFields(_, _)
        OfFields(stmts, class_name) ==
            IF stmts = <<>> THEN <<>>
            ELSE LET st == Head(stmts)
                     r == Resolve(pb_schema, registry, class_name, st.name)
                 IN (IF st.k = "Field" /\ ReachesPlaceholder(st.ann) /\ r.err # "none"
                     THEN <<r.err>> ELSE <<>>)
                    \o OfFields(Tail(stmts), class_name)
        RECURSIVE OfClasses(_)
        OfClasses(q) ==
            IF q = <<>> THEN <<>>
            ELSE OfFields(Head(q).body, Head(q).name) \o OfClasses(Tail(q))
    IN OfClasses(cs)

RECURSIVE RelationStmt(_, _, _, _)
\* statement s of the body of the class named owner (<<>> at the top level,
\* whose statements the pass does not look at)
RelationStmt(s, owner, pb_schema, registry) ==
    CASE s.k = "Class" ->
           Class(s.name, s.bases,
                 [i \in DOMAIN s.body |->
                    RelationStmt(s.body[i], s.name, pb_schema, registry)])
      [] s.k = "Field" ->
           IF owner # <<>> /\ ReachesPlaceholder(s.ann)
           THEN Field(s.name,
                      recursive_replace(s.ann,
                        Resolve(pb_schema, registry, owner, s.name).id))
           ELSE s
      [] OTHER -> s

\* [err, body]: the first exception raised, or "none" and the rewritten body.
\* An exception ends the run, so the half-rewritten tree is never read again
\* and the body is given back as it was.
replace_relation_annotations(body, pb_schema, registry) ==
    LET errs == RelationErrors(body, pb_schema, registry)
    IN IF errs # <<>> THEN [err |-> Head(errs), body |-> body]
       ELSE [err |-> "none",
             body |-> [i \in DOMAIN body |->
                         RelationStmt(body[i], <<>>, pb_schema, registry)]]

\* -------------------------------------------------------- Enum Consolidation

\* name with its trailing digits cut off; a name of digits only stays whole
StripDigits(name) ==
    LET RECURSIVE Cut(_)
        Cut(n) == IF n # <<>> /\ n[Len(n)] \in Digits THEN Cut(Front(n)) ELSE n
    IN IF Cut(name) = <<>> THEN name ELSE Cut(name)

\* the top-level Enum classes, in body order
EnumClasses(body) == Filter(body, {i \in DOMAIN body : IsEnum(body[i])})

\* groups: dict base name -> list of the Enum classes of that base name
RECURSIVE GroupEnums(_, _)
GroupEnums(enum_classes, groups) ==
    IF enum_classes = <<>> THEN groups
    ELSE LET c == Head(enum_classes)
             b == StripDigits(c.name)
             old == IF DictHas(groups, b) THEN DictGet(groups, b) ELSE <<>>
         IN GroupEnums(Tail(enum_classes), DictSet(groups, b, Append(old, c)))

RECURSIVE MembersFirstWins(_, _)
\* MergeMembers that keeps the first value of a member name
MembersFirstWins(stmts, merged) ==
    IF stmts = <<>> THEN merged
    ELSE MembersFirstWins(Tail(stmts),
           IF Head(stmts).k = "Member" /\ ~DictHas(merged, Head(stmts).name)
           THEN DictSet(merged, Head(stmts).name, Head(stmts).value)
           ELSE merged)

\* merged_members[target.id] = stmt.value over the statements of one class
RECURSIVE MergeMembers(_, _)
MergeMembers(stmts, merged) ==
    IF stmts = <<>> THEN merged
    ELSE MergeMembers(Tail(stmts),
           IF Head(stmts).k = "Member"
           THEN DictSet(merged, Head(stmts).name, Head(stmts).value)
           ELSE merged)

RECURSIVE MergedMembers(_, _)
MergedMembers(group, merged) ==
    IF group = <<>> THEN merged
    ELSE MergedMembers(Tail(group), MergeMembers(Head(group).body, merged))

MergedEnum(base_name, group) ==
    LET mm == MergedMembers(group, <<>>)
    IN Class(base_name, <<Name(W("Enum"))>>,
             [i \in DOMAIN mm |-> Member(mm[i][1], mm[i][2])])

\* index of the first class of the body that holds a Name in old_names, 0
\* when there is none
FirstParent(body, old_names) ==
    LET hits == {i \in DOMAIN body :
                   IsClass(body[i]) /\ StmtNames(body[i]) \cap old_names # {}}
    IN IF hits = {} THEN 0 ELSE CHOOSE i \in hits : \A j \in hits : i <= j

\* steps 3 to 6 of merge_all_enum_classes for one group
MergeGroup(body, base_name, group) ==
    LET merged_enum == MergedEnum(base_name, group)
        removed == Filter(body, {i \in DOMAIN body : body[i] \notin Range(group)})
        old_names == {group[i].name : i \in DOMAIN group}
        p == FirstParent(removed, old_names)
        nested == IF p # 0
                  THEN [removed EXCEPT ![p] =
                          Class(removed[p].name, removed[p].bases,
                                <<merged_enum>> \o removed[p].body)]
                  ELSE <<merged_enum>> \o removed
    IN [i \in DOMAIN nested |-> RenameStmt(nested[i], old_names, base_name, FALSE)]

RECURSIVE MergeGroups(_, _)
MergeGroups(body, groups) ==
    IF groups = <<>> THEN body
    ELSE MergeGroups(MergeGroup(body, Head(groups)[1], Head(groups)[2]),
                     Tail(groups))

merge_all_enum_classes(body) ==
    MergeGroups(body, GroupEnums(EnumClasses(body), <<>>))

\* ------------------------------------------------------- Union simplification

\* names of the Enum classes nested directly in class c
NestedEnumNames(c) ==
    {c.body[i].name : i \in {j \in DOMAIN c.body : IsEnum(c.body[j])}}

\* step 1: the keys of parent_map in insertion order, the top-level classes
\* that hold a nested Enum
ParentKeys(body) ==
    LET RECURSIVE Keys(_, _)
        Keys(stmts, acc) ==
            IF stmts = <<>> THEN acc
            ELSE Keys(Tail(stmts),
                   IF IsClass(Head(stmts)) /\ NestedEnumNames(Head(stmts)) # {}
                      /\ Head(stmts).name \notin Range(acc)
                   THEN Append(acc, Head(stmts).name) ELSE acc)
    IN Keys(body, <<>>)

\* parent_map[parent]: the entry of the last top-level class of that name
\* that holds a nested Enum
ParentEnums(body, parent) ==
    LET hits == {i \in DOMAIN body :
                   IsClass(body[i]) /\ body[i].name = parent
                   /\ NestedEnumNames(body[i]) # {}}
    IN NestedEnumNames(body[CHOOSE i \in hits : \A j \in hits : j <= i])

RemoveFirst(body, node) ==
    LET hits == {i \in DOMAIN body : body[i] = node}
        at == CHOOSE i \in hits : \A j \in hits : i <= j
    IN Filter(body, DOMAIN body \ {at})

\* step 3 for the top-level enums that are left, in order.  The loop over
\* ast_tree.body reads cls.name of every statement, and a statement that is
\* no ClassDef (an import) has none: AttributeError.
RECURSIVE NestTopLevel(_, _, _, _)
NestTopLevel(body, enums, first_parent, existing_names) ==
    IF enums = <<>> THEN [err |-> "none", body |-> body]
    ELSE LET enum == Head(enums)
             enum_name == IF enum.name \in existing_names
                          THEN enum.name \o <<"_">> ELSE enum.name
             moved == Class(enum_name, enum.bases, enum.body)
             removed == RemoveFirst(body, enum)
         IN IF \E i \in DOMAIN removed : ~IsClass(removed[i])
            THEN [err |-> "AttributeError", body |-> removed]
            ELSE NestTopLevel(
                   [i \in DOMAIN removed |->
                      IF removed[i].name = first_parent
                      THEN Class(removed[i].name, removed[i].bases,
                                 Append(removed[i].body, moved))
                      ELSE removed[i]],
                   Tail(enums), first_parent, existing_names \cup {enum_name})

\* step 4: enum_full_names as the set of its keys and the owner of a key
EnumFullNames(body) ==
    UNION {NestedEnumNames(body[i]) : i \in {j \in DOMAIN body : IsClass(body[j])}}

EnumOwner(body, enum_name) ==
    LET hits == {i \in DOMAIN body :
                   IsClass(body[i]) /\ enum_name \in NestedEnumNames(body[i])}
    IN body[CHOOSE i \in hits : \A j \in hits : j <= i].name

\* list(seen.values()) for seen[ast.unparse(e)] = e: one element per
\* rendering, in the order of the first occurrences
RECURSIVE Unique(_, _)
Unique(elts, seen) ==
    IF elts = <<>> THEN seen
    ELSE Unique(Tail(elts),
                IF Head(elts) \in Range(seen) THEN seen ELSE Append(seen, Head(elts)))

\* Collapse that leaves a Union of one member as it is
CollapseKeepWrapper(value, slice) ==
    IF value.k = "Name" /\ value.id = W("Union")
    THEN LET elts == IF slice.k = "Tuple" THEN slice.elts ELSE <<slice>>
         IN Subscript(value, Tuple(Unique(elts, <<>>)))
    ELSE Subscript(value, slice)

\* visit_Subscript after generic_visit: value and slice are the visited
\* children
Collapse(value, slice) ==
    IF value.k = "Name" /\ value.id = W("Union")
    THEN LET elts == IF slice.k = "Tuple" THEN slice.elts ELSE <<slice>>
             elts_unique == Unique(elts, <<>>)
         IN IF Len(elts_unique) = 1 THEN elts_unique[1]
            ELSE IF slice.k = "Tuple" THEN Subscript(value, Tuple(elts_unique))
                 ELSE Subscript(value, slice)
    ELSE Subscript(value, slice)

RECURSIVE VisitExpr(_, _)
\* Transformer.visit on an expression; scope is the body that
\* enum_full_names was collected from
VisitExpr(node, scope) ==
    CASE node.k = "Name" ->
           IF node.id \in EnumFullNames(scope)
           THEN Attribute(Name(EnumOwner(scope, node.id)), node.id)
           ELSE node
      [] node.k = "Subscript" ->
           Collapse(VisitExpr(node.value, scope), VisitExpr(node.slice, scope))
      [] node.k = "Tuple" ->
           Tuple([i \in DOMAIN node.elts |-> VisitExpr(node.elts[i], scope)])
      [] node.k = "Attribute" -> Attribute(VisitExpr(node.value, scope), node.attr)
      [] OTHER -> node

RECURSIVE VisitStmt(_, _)
VisitStmt(s, scope) ==
    CASE s.k = "Class" ->
           Class(s.name,
                 [i \in DOMAIN s.bases |-> VisitExpr(s.bases[i], scope)],
                 [i \in DOMAIN s.body |-> VisitStmt(s.body[i], scope)])
      [] s.k = "Field" -> Field(s.name, VisitExpr(s.ann, scope))
      [] OTHER -> s

\* [err, body]
simplify_enum_union_annotations(body) ==
    LET keys == ParentKeys(body)
        top_level_enums == EnumClasses(body)
        nested == IF top_level_enums # <<>> /\ keys # <<>>
                  THEN NestTopLevel(body, top_level_enums, keys[1],
                                    ParentEnums(body, keys[1]))
                  ELSE [err |-> "none", body |-> body]
    IN IF nested.err # "none" THEN nested
       ELSE [err |-> "none",
             body |-> [i \in DOMAIN nested.body |->
                         VisitStmt(nested.body[i], nested.body)]]

\* ------------------------------------------------------------------ inputs
\* The schema snapshot and the generated declaration source that a run
\* starts from, in the shape the generator chain gives them: one
\* <Entity>Record and one <Entity>Response class per collection, the index
\* class CollectionRecords, the alias classes RecordIdString and
\* IsoDateString, and one Enum class per use of a select field, numbered
\* Status, Status1, Status2, ...

Str == Name(W("str"))
BaseModel == <<Name(W("BaseModel"))>>
EnumBase == <<Name(W("Enum"))>>

\* the annotations of depth <= d over a leaf: Optional[x] and Union[x, str]
RECURSIVE Wrapped(_, _)
Wrapped(leaf, d) ==
    IF d = 0 THEN {leaf}
    ELSE LET inner == Wrapped(leaf, d - 1)
         IN inner \cup {Optional(x) : x \in inner}
                  \cup {Union(<<x, Str>>) : x \in inner}

\* the field "author" of the collection "book" in the schema
AuthorFields ==
    {SchemaField("author", "relation", cid) : cid \in {"c1", "c2", "c9"}}
      \cup {SchemaField("author", "text", cid) : cid \in {"c1", NoId}}

AuthorEntity == Entity("c1", "author", <<SchemaField("name", "text", NoId)>>)

BookEntity(f) == Entity("c2", "book", <<SchemaField("title", "text", NoId), f>>)

Schemas ==
    {<<AuthorEntity, BookEntity(f)>> : f \in AuthorFields}
      \cup {<<BookEntity(f)>> : f \in AuthorFields}

DefaultSchema ==
    <<AuthorEntity, BookEntity(SchemaField("author", "relation", "c1"))>>

\* the index class and the fields it lists
IndexKinds == {"full", "wrapped", "book", "swap", "same", "absent"}

IndexClass(kind) ==
    LET a == Name(<<"Author", "Record">>)
        b == Name(<<"Book", "Record">>)
        fs == CASE kind = "full" -> <<Field("author", a), Field("book", b)>>
                [] kind = "wrapped" -> <<Field("author", Optional(a)), Field("book", b)>>
                [] kind = "book" -> <<Field("book", b)>>
                [] kind = "swap" -> <<Field("author", b)>>
                [] kind = "same" -> <<Field("author", b), Field("book", b)>>
                [] OTHER -> <<>>
    IN IF kind = "absent" THEN <<>>
       ELSE <<Class(<<"Collection", "Records">>, BaseModel, fs)>>

MemberName(j) ==
    CASE j = 0 -> "A" [] j = 1 -> "B" [] j = 2 -> "C" [] j = 3 -> "D" [] OTHER -> "E"

FragName(i) == IF i = 0 THEN W("Status") ELSE <<"Status", DigitWord(i)>>

\* fragment i declares members i and i+1, each with the value i: two
\* neighbours share a member name and give it different values
Fragment(i) ==
    Class(FragName(i), EnumBase, <<Member(MemberName(i), i), Member(MemberName(i + 1), i)>>)

KindEnum == Class(W("Kind"), EnumBase, <<Member("K", 0)>>)

RECURSIVE Fragments(_, _)
\* the fragments numbered in set, ascending or descending in the body
Fragments(set, ascending) ==
    IF set = {} THEN <<>>
    ELSE LET i == IF ascending THEN CHOOSE x \in set : \A y \in set : x <= y
                  ELSE CHOOSE x \in set : \A y \in set : y <= x
         IN <<Fragment(i)>> \o Fragments(set \ {i}, ascending)

RefNames(set) ==
    LET fr == Fragments(set, TRUE)
    IN [i \in DOMAIN fr |-> Name(fr[i].name)]

\* how the class Book uses the fragments in its field "status"
StatusShapes == {"none", "optional", "union", "union_str", "str_union"}

StatusField(set, shape) ==
    IF set = {} \/ shape = "none" THEN <<>>
    ELSE <<Field("status",
             CASE shape = "optional" -> Optional(RefNames(set)[1])
               [] shape = "union" -> Union(RefNames(set))
               [] shape = "union_str" -> Optional(Union(RefNames(set) \o <<Str>>))
               [] OTHER -> Union(<<Str>> \o RefNames(set)))>>

\* the generated module.  ann is the annotation of Book.author, resp that of
\* BookResponse.author, extra the classes appended at the end.
Module(index, ann, resp, enums, authorRef, statusField, kindField, extra) ==
    <<Import("enum"), Import("pydantic")>>
      \o enums
      \o <<Class(W("RecordIdString"), BaseModel, <<Field("root", Str)>>),
           Class(W("IsoDateString"), BaseModel, <<Field("root", Str)>>),
           Class(<<"Author", "Record">>, BaseModel,
                 <<Class(W("Config"), <<>>, <<Member("extra", 0)>>),
                   Field("name", Str),
                   Field("created", Optional(Name(W("IsoDateString"))))>>
                   \o authorRef),
           Class(<<"Book", "Record">>, BaseModel,
                 <<Field("title", Str), Field("author", ann)>>
                   \o statusField \o kindField),
           Class(<<"Book", "Response">>, BaseModel,
                 <<Field("title", Str), Field("author", resp)>>)>>
      \o IndexClass(index)
      \o <<Class(<<"Collection", "Responses">>, BaseModel,
                 <<Field("book", Name(<<"Book", "Response">>))>>)>>
      \o extra

ExtraClasses ==
    {<<>>, <<Class(<<"Book", "Records">>, BaseModel, <<Field("title", Str)>>)>>}

\* runs that differ in the schema, the index class and the relation field
RelationInputs ==
    {[schema |-> sc,
      body |-> Module(ix, ann, resp, <<Fragment(0)>>, <<>>,
                      StatusField({0}, "optional"), <<>>, <<>>)] :
       sc \in Schemas, ix \in IndexKinds,
       ann \in Wrapped(Name(RecordIdString), MaxWrap) \cup {Str},
       resp \in {Str, Name(RecordIdString)}}

\* runs that differ in the enum fragments and in who refers to them
EnumInputs ==
    {[schema |-> DefaultSchema,
      body |-> Module("full", Optional(Name(RecordIdString)), Str,
                      Fragments(set, asc) \o (IF kind # "absent" THEN <<KindEnum>> ELSE <<>>),
                      IF aref /\ set # {}
                      THEN <<Field("state", Name(RefNames(set)[Len(RefNames(set))].id))>>
                      ELSE <<>>,
                      StatusField(set, shape),
                      IF kind = "used" THEN <<Field("kind", Name(W("Kind")))>> ELSE <<>>,
                      extra)] :
       set \in SUBSET (0..MaxFrag), asc \in BOOLEAN, aref \in BOOLEAN,
       shape \in StatusShapes, kind \in {"absent", "unused", "used"},
       extra \in ExtraClasses}

Inputs == RelationInputs \cup EnumInputs

\* ------------------------------------------------------------ the pipeline

VARIABLES
    pc,          \* the call of pb_models_to_pydantic_models that runs next
    run,         \* 1: the run on the generated source, 2: on its own output
    pb_schema,   \* the entity list (pb_schema_with_references once wired)
    raw_schema,  \* the entity list as fetched
    ast_tree,    \* ast_tree.body
    before,      \* ast_tree.body as the last pass found it
    last,        \* the last call that ran
    registry,    \* classnames_original_collection_names
    err,         \* the exception that ended the run, "none" without one
    rendered,    \* out_transformed_ast once ast.unparse has returned
    file,        \* what this run did to the destination: [opened, text]
    first_out    \* what run 1 wrote

vars == <<pc, run, pb_schema, raw_schema, ast_tree, before, last, registry, err,
          rendered, file, first_out>>

NoText == <<>>

Init ==
    \E inp \in Inputs :
       /\ pc = "wire"
       /\ run = 1
       /\ pb_schema = inp.schema
       /\ raw_schema = inp.schema
       /\ ast_tree = inp.body
       /\ before = inp.body
       /\ last = "parse"
       /\ registry = <<>>
       /\ err = "none"
       /\ rendered = NoText
       /\ file = [opened |-> FALSE, text |-> NoText]
       /\ first_out = NoText

\* a pass that cannot fail: the body becomes new and the run goes on
Pass(at, new, next) ==
    /\ pc = at
    /\ pc' = next
    /\ last' = at
    /\ before' = ast_tree
    /\ ast_tree' = new
    /\ UNCHANGED <<run, pb_schema, raw_schema, registry, err, rendered, file, first_out>>

\* Raise with the exception swallowed
GoOn(next) == next

\* no call of the pipeline is inside a try: an exception leaves
\* pb_models_to_pydantic_models, and nothing after the raising call runs
Raise(next) == "failed"

\* a pass that may raise: r is [err, body]
PassOrFail(at, r, next) ==
    /\ pc = at
    /\ last' = at
    /\ before' = ast_tree
    /\ err' = r.err
    /\ IF r.err = "none"
       THEN pc' = next /\ ast_tree' = r.body
       ELSE pc' = Raise(next) /\ ast_tree' = ast_tree
    /\ UNCHANGED <<run, pb_schema, raw_schema, registry, rendered, file, first_out>>

Wire ==
    /\ pc = "wire"
    /\ pb_schema' = wire_pbschema_references(pb_schema)
    /\ pc' = "suffix"
    /\ last' = "wire"
    /\ UNCHANGED <<run, raw_schema, ast_tree, before, registry, err, rendered, file,
                   first_out>>

SufixMap == <<<<"Record", <<>>>>, <<"Records", <<>>>>>>

Suffix == Pass("suffix", replace_class_suffixes(ast_tree, SufixMap), "config")

Config == Pass("config", remove_config_classes(ast_tree), "imports")

Imports == Pass("imports", add_imports(ast_tree, <<Import("datetime")>>), "types")

TypeReplacements == <<<<W("IsoDateString"), W("datetime")>>>>

Types == Pass("types", replace_types(ast_tree, TypeReplacements), "registry")

Registry ==
    /\ pc = "registry"
    /\ registry' = get_classnames_original_collection_names(ast_tree)
    /\ pc' = "drop_index"
    /\ last' = "registry"
    /\ UNCHANGED <<run, pb_schema, raw_schema, ast_tree, before, err, rendered, file,
                   first_out>>

DropIndex == Pass("drop_index", remove_classes(ast_tree, {W("Collection")}), "relations")

Relations ==
    PassOrFail("relations",
               replace_relation_annotations(ast_tree, pb_schema, registry), "prune")

Prune ==
    Pass("prune",
         remove_classes(ast_tree, {W("TypedPocketBase"), <<"Collection", "Responses">>,
                                   W("RecordIdString")}),
         "prune_suffix")

PruneSuffix ==
    Pass("prune_suffix", remove_classes_with_suffixes(ast_tree, {"Response"}), "merge")

Merge == Pass("merge", merge_all_enum_classes(ast_tree), "simplify")

Simplify ==
    PassOrFail("simplify", simplify_enum_union_annotations(ast_tree), "render")

\* out_transformed_ast = ast.unparse(ast_tree): the text is the tree up to
\* formatting
Render ==
    /\ pc = "render"
    /\ rendered' = ast_tree
    /\ pc' = "write"
    /\ last' = "render"
    /\ UNCHANGED <<run, pb_schema, raw_schema, ast_tree, before, registry, err, file,
                   first_out>>

\* with open(model_out_filename, "w") as f: f.write(out_transformed_ast)
Write ==
    /\ pc = "write"
    /\ file' = [opened |-> TRUE, text |-> rendered]
    /\ pc' = "done"
    /\ last' = "write"
    /\ UNCHANGED <<run, pb_schema, raw_schema, ast_tree, before, registry, err,
                   rendered, first_out>>

\* the written source is parsed again (ast.parse of ast.unparse gives the
\* tree back) and the passes of lines 550-564 run on it, with the schema of
\* the first run
Rerun ==
    /\ pc = "done"
    /\ run = 1
    /\ run' = 2
    /\ first_out' = file.text
    /\ pc' = "suffix"
    /\ last' = "parse"
    /\ before' = ast_tree
    /\ registry' = <<>>
    /\ rendered' = NoText
    /\ file' = [opened |-> FALSE, text |-> NoText]
    /\ UNCHANGED <<pb_schema, raw_schema, ast_tree, err>>

Next ==
    \/ Wire \/ Suffix \/ Config \/ Imports \/ Types \/ Registry \/ DropIndex
    \/ Relations \/ Prune \/ PruneSuffix \/ Merge \/ Simplify \/ Render \/ Write
    \/ Rerun

Spec == Init /\ [][Next]_vars

\* ------------------------------------------------------------------ claims

\* the calls that have run when pc is at or past a step
Wired == pc # "wire"

RegistryBuilt ==
    pc \notin {"wire", "suffix", "config", "imports", "types", "registry"}
      \/ (pc = "failed" /\ last \in {"relations", "simplify"})

EntityIds(schema) == {schema[i].id : i \in DOMAIN schema}

\* C5: after wiring, a relation field whose collectionId is the id of an
\* entity of the list carries a collectionRef to that entity, a relation
\* field whose collectionId is no entity's id carries none, a field of
\* another type carries none, nothing else of the schema has changed, and
\* no error was raised.
C5_WiringResolvesRelations ==
    Wired /\ run = 1 =>
      /\ DOMAIN pb_schema = DOMAIN raw_schema
      /\ last = "wire" => err = "none"
      /\ \A e \in DOMAIN raw_schema :
           /\ pb_schema[e].id = raw_schema[e].id
           /\ pb_schema[e].name = raw_schema[e].name
           /\ DOMAIN pb_schema[e].fields = DOMAIN raw_schema[e].fields
           /\ \A i \in DOMAIN raw_schema[e].fields :
                LET f == raw_schema[e].fields[i]
                    g == pb_schema[e].fields[i]
                IN /\ g = [f EXCEPT !.collectionRef = g.collectionRef]
                   /\ (f.type = "relation" /\ f.collectionId \in EntityIds(raw_schema))
                        => /\ g.collectionRef \in DOMAIN pb_schema
                           /\ pb_schema[g.collectionRef].id = f.collectionId
                   /\ (f.type = "relation" /\ f.collectionId \notin EntityIds(raw_schema))
                        => g.collectionRef = NoRef
                   /\ f.type # "relation" => g.collectionRef = NoRef

\* a wired schema whose relation field has been given its collectionRef
C5_Witness ==
    /\ last = "wire"
    /\ \E e \in DOMAIN pb_schema : \E i \in DOMAIN pb_schema[e].fields :
         /\ raw_schema[e].fields[i].collectionRef = NoRef
         /\ pb_schema[e].fields[i].collectionRef # NoRef

\* C7: the destination is opened and written only when every pass and the
\* rendering have completed without an error, and what is written is the
\* rendering of the final tree; a run that a pass has ended with an error
\* has not touched the destination and runs no further.
C7_NoPartialOutput ==
    /\ file.opened => (pc = "done" /\ err = "none" /\ last = "write"
                        /\ file.text = rendered /\ rendered = ast_tree)
    /\ err # "none" => (pc = "failed" /\ ~file.opened /\ rendered = NoText)
    /\ pc = "failed" => err # "none"

\* a run that the last rewrite pass has ended with an error, the file untouched
C7_Witness ==
    pc = "failed" /\ last = "simplify" /\ err = "AttributeError" /\ ~file.opened

\* C8 (as stated): the second run of the passes, on the output of the first,
\* changes nothing: its tree stays the tree the first run wrote.
C8_Idempotent == run = 2 => ast_tree = first_out

\* C9 (as stated): for every entity name e of the registry, the reverse map
\* built from the registry takes registry[e] back to e.
C9_RegistryBijective ==
    RegistryBuilt =>
      \A e \in DictKeys(registry) : Reversed(registry, DictGet(registry, e)) = e

ClassNamesOf(stmts) ==
    LET idx == {i \in DOMAIN stmts : IsClass(stmts[i])}
    IN [n \in {stmts[i].name : i \in idx} |->
          Cardinality({i \in idx : stmts[i].name = n})]

RECURSIVE UniqueAtEveryLevel(_)
UniqueAtEveryLevel(stmts) ==
    /\ \A n \in DOMAIN ClassNamesOf(stmts) : ClassNamesOf(stmts)[n] = 1
    /\ \A i \in DOMAIN stmts :
         IsClass(stmts[i]) => UniqueAtEveryLevel(stmts[i].body)

\* C10 (as stated): when all passes of the run on the generated source have
\* run, no two class declarations at the same nesting level (the top level
\* or one class body) have the same name.
C10_UniqueClassNames ==
    (run = 1 /\ pc \in {"render", "write", "done"}) => UniqueAtEveryLevel(ast_tree)

\* ---- relation resolution

HoldsPlaceholder(ann) == RecordIdString \in NamesIn(ann)

\* the schema field that a field of a class stands for: the entity is the
\* one the reversed registry gives for the class name, the field the one of
\* that name; <<>> when there is none, else <<the field>>
SchemaFieldOf(class_name, field_name) ==
    IF class_name \notin DictValues(registry) THEN <<>>
    ELSE LET ents == {e \in DOMAIN pb_schema :
                        pb_schema[e].name = Reversed(registry, class_name)}
         IN IF ents = {} THEN <<>>
            ELSE LET e == CHOOSE x \in ents : \A y \in ents : x <= y
                     fs == {i \in DOMAIN pb_schema[e].fields :
                              pb_schema[e].fields[i].name = field_name}
                 IN IF fs = {} THEN <<>>
                    ELSE <<pb_schema[e].fields[CHOOSE x \in fs : \A y \in fs : x <= y]>>

\* the field is a relation whose collectionRef is resolved
ResolvedRelation(class_name, field_name) ==
    LET sf == SchemaFieldOf(class_name, field_name)
    IN sf # <<>> /\ sf[1].type = "relation" /\ sf[1].collectionRef # NoRef

TargetEntity(class_name, field_name) ==
    pb_schema[SchemaFieldOf(class_name, field_name)[1].collectionRef].name

RECURSIVE SameExcept(_, _, _)
\* b is a with every Name RecordIdString replaced by Name(new) and nothing
\* else changed
SameExcept(a, b, new) ==
    CASE a.k = "Name" -> b = (IF a.id = RecordIdString THEN Name(new) ELSE a)
      [] a.k = "Subscript" ->
           /\ b.k = "Subscript"
           /\ SameExcept(a.value, b.value, new)
           /\ SameExcept(a.slice, b.slice, new)
      [] a.k = "Tuple" ->
           /\ b.k = "Tuple"
           /\ DOMAIN b.elts = DOMAIN a.elts
           /\ \A i \in DOMAIN a.elts : SameExcept(a.elts[i], b.elts[i], new)
      [] OTHER -> b = a

RECURSIVE ResolvedStmt(_, _, _)
\* statement t is what the pass has to make of statement s of class owner
ResolvedStmt(s, t, owner) ==
    CASE s.k = "Class" ->
           /\ t.k = "Class" /\ t.name = s.name /\ t.bases = s.bases
           /\ DOMAIN t.body = DOMAIN s.body
           /\ \A i \in DOMAIN s.body : ResolvedStmt(s.body[i], t.body[i], s.name)
      [] s.k = "Field" ->
           /\ t.k = "Field" /\ t.name = s.name
           /\ ~HoldsPlaceholder(s.ann) => t.ann = s.ann
           /\ ResolvedRelation(owner, s.name) =>
                /\ ~HoldsPlaceholder(t.ann)
                /\ HoldsPlaceholder(s.ann) => DictHas(registry, TargetEntity(owner, s.name))
                /\ HoldsPlaceholder(s.ann) =>
                     SameExcept(s.ann, t.ann,
                                DictGet(registry, TargetEntity(owner, s.name)))
      [] OTHER -> t = s

PlaceholderFields(body) ==
    LET cs == WalkClasses(body)
    IN UNION {{<<cs[i].name, cs[i].body[j].name>> :
                 j \in {x \in DOMAIN cs[i].body :
                          cs[i].body[x].k = "Field"
                          /\ HoldsPlaceholder(cs[i].body[x].ann)}} :
              i \in DOMAIN cs}

\* (1) the owning class is no value of the registry
NoEntityForClass(cf) == cf[1] \notin DictValues(registry)

\* (2) the entity the class maps to has no field of the field's name
NoSchemaField(cf) ==
    /\ cf[1] \in DictValues(registry)
    /\ \E e \in DOMAIN pb_schema : pb_schema[e].name = Reversed(registry, cf[1])
    /\ SchemaFieldOf(cf[1], cf[2]) = <<>>

\* (3) the resolved target entity has no entry in the registry
NoClassForTarget(cf) ==
    /\ SchemaFieldOf(cf[1], cf[2]) # <<>>
    /\ SchemaFieldOf(cf[1], cf[2])[1].collectionRef # NoRef
    /\ ~DictHas(registry, TargetEntity(cf[1], cf[2]))

\* the schema field is there and has no collectionRef
NoCollectionRef(cf) ==
    /\ SchemaFieldOf(cf[1], cf[2]) # <<>>
    /\ SchemaFieldOf(cf[1], cf[2])[1].collectionRef = NoRef

\* C2: relation resolution ends the run with an error, and leaves no
\* placeholder silently in place, when a field whose type expression holds
\* the placeholder (1) belongs to a class that is no value of the registry,
\* (2) has no field of its name in the mapped schema entity, or (3) has a
\* resolved target entity without a registry entry.
C2_MismatchRaises ==
    (last = "relations" /\
       \E cf \in PlaceholderFields(before) :
          NoEntityForClass(cf) \/ NoSchemaField(cf) \/ NoClassForTarget(cf))
    => (err \in {"KeyError", "StopIteration", "TypeError"} /\ pc = "failed"
          /\ ast_tree = before /\ ~file.opened)

\* the run has failed on a relation whose target has no registry entry, the
\* only mismatch of the tree
C2_Witness ==
    /\ last = "relations" /\ pc = "failed" /\ err = "KeyError"
    /\ \E cf \in PlaceholderFields(before) : NoClassForTarget(cf)
    /\ \A cf \in PlaceholderFields(before) :
         ~NoEntityForClass(cf) /\ ~NoSchemaField(cf) /\ ~NoCollectionRef(cf)

C2_ReachedCase1 ==
    /\ last = "relations" /\ pc = "failed" /\ err = "KeyError"
    /\ \A cf \in PlaceholderFields(before) : NoEntityForClass(cf)

C2_ReachedCase2 ==
    /\ last = "relations" /\ pc = "failed" /\ err = "StopIteration"
    /\ \A cf \in PlaceholderFields(before) : NoSchemaField(cf)

\* the schema field is a relation whose collectionId did not resolve
UnresolvedRelation(cf) ==
    NoCollectionRef(cf) /\ SchemaFieldOf(cf[1], cf[2])[1].type = "relation"

\* C6 (as stated): a field whose schema entry is a relation without a
\* collectionRef is left unresolved by relation resolution: the placeholder
\* stays and the run goes on without an error.  Stated for the runs where
\* such a field is the only thing that could stop the pass.
C6_UnresolvedTolerated ==
    (/\ last = "relations"
     /\ \E cf \in PlaceholderFields(before) : UnresolvedRelation(cf)
     /\ \A cf \in PlaceholderFields(before) :
          \/ UnresolvedRelation(cf)
          \/ (ResolvedRelation(cf[1], cf[2])
                /\ DictHas(registry, TargetEntity(cf[1], cf[2]))))
    => /\ err = "none" /\ pc = "prune"
       /\ \A cf \in PlaceholderFields(before) :
            UnresolvedRelation(cf) => cf \in PlaceholderFields(ast_tree)

\* ---- enum merging

\* the top-level classes that are no Enum, in order: merging and
\* simplification leave their number and order alone
Models(body) == Filter(body, {i \in DOMAIN body : IsClass(body[i]) /\ ~IsEnum(body[i])})

\* the fragments of base name b among the top-level Enum classes, in order
FragmentsOf(body, b) ==
    Filter(body, {i \in DOMAIN body : IsEnum(body[i]) /\ StripDigits(body[i].name) = b})

BaseNames(body) ==
    {StripDigits(body[i].name) : i \in {j \in DOMAIN body : IsEnum(body[j])}}

\* where the Enum declarations named b are: <<i, 0>> for statement i of the
\* top level, <<i, j>> for statement j of the top-level class i
DeclarationsOf(body, b) ==
    {<<i, 0>> : i \in {x \in DOMAIN body : IsEnum(body[x]) /\ body[x].name = b}}
      \cup UNION {{<<i, j>> : j \in {y \in DOMAIN body[i].body :
                                       IsEnum(body[i].body[y])
                                       /\ body[i].body[y].name = b}} :
                  i \in {x \in DOMAIN body : IsClass(body[x])}}

DeclarationAt(body, at) ==
    IF at[2] = 0 THEN body[at[1]] ELSE body[at[1]].body[at[2]]

MemberNamesOf(c) == {c.body[i].name : i \in {j \in DOMAIN c.body : c.body[j].k = "Member"}}

\* the value that member m has in class c (its last assignment)
MemberValue(c, m) ==
    LET hits == {i \in DOMAIN c.body : c.body[i].k = "Member" /\ c.body[i].name = m}
    IN c.body[CHOOSE i \in hits : \A j \in hits : j <= i].value

\* the value that the last fragment declaring m gives it
LaterValue(frags, m) ==
    LET hits == {i \in DOMAIN frags : m \in MemberNamesOf(frags[i])}
    IN MemberValue(frags[CHOOSE i \in hits : \A j \in hits : j <= i], m)

Referring(body, names) ==
    {k \in DOMAIN Models(body) : StmtNames(Models(body)[k]) \cap names # {}}

MergedAsClaimed(b) ==
    LET frags == FragmentsOf(before, b)
        old == {frags[i].name : i \in DOMAIN frags}
        decls == DeclarationsOf(ast_tree, b)
        at == CHOOSE d \in decls : TRUE
        merged == DeclarationAt(ast_tree, at)
        refs == Referring(before, old)
    IN /\ Cardinality(decls) = 1
       /\ \A i \in DOMAIN ast_tree :
            (IsEnum(ast_tree[i]) /\ ast_tree[i].name \in old) => ast_tree[i].name = b
       /\ \A i \in DOMAIN merged.body : merged.body[i].k = "Member"
       /\ Len(merged.body) = Cardinality(MemberNamesOf(merged))
       /\ MemberNamesOf(merged) = UNION {MemberNamesOf(frags[i]) : i \in DOMAIN frags}
       /\ \A m \in MemberNamesOf(merged) : MemberValue(merged, m) = LaterValue(frags, m)
       /\ DOMAIN Models(ast_tree) = DOMAIN Models(before)
       /\ IF refs # {}
          THEN LET first == CHOOSE k \in refs : \A x \in refs : k <= x
               IN /\ at[2] # 0
                  /\ ast_tree[at[1]] = Models(ast_tree)[first]
                  /\ Models(ast_tree)[first].name = Models(before)[first].name
          ELSE at[2] = 0

\* C3: after enum merging, for every group of top-level Enum classes whose
\* names are equal once trailing digits are cut off: exactly one Enum
\* declaration of the cut name exists; its members are the union of the
\* fragments' members, one entry per member name, with the value of the
\* later fragment where two fragments declare the same name; no fragment is
\* left at the top level; and the declaration is nested in the first class,
\* in declaration order, that refers to a fragment name (it is at the top
\* level when no class does).
C3_EnumsMerged ==
    last = "merge" => \A b \in BaseNames(before) : MergedAsClaimed(b)

\* Status1{B, C} and Status2{C, D} are referred to by Book and not by
\* Author, the first class; Book now holds one Status with the members B, C
\* and D, and C has the value of Status2
C3_Witness ==
    /\ last = "merge"
    /\ FragmentsOf(before, W("Status")) = <<Fragment(1), Fragment(2)>>
    /\ Referring(before, {FragName(1), FragName(2)}) = {2}
    /\ \E i \in DOMAIN ast_tree :
         /\ IsClass(ast_tree[i]) /\ ast_tree[i].name = W("Book")
         /\ ast_tree[i].body[1] =
              Class(W("Status"), EnumBase,
                    <<Member("B", 1), Member("C", 2), Member("D", 2)>>)

\* ---- union simplification

IsUnion(e) == e.k = "Subscript" /\ e.value = Name(W("Union"))

UnionMembers(e) == IF e.slice.k = "Tuple" THEN e.slice.elts ELSE <<e.slice>>

RECURSIVE Simplified(_, _)
\* expression b is what the pass has to make of expression a: a name stays
\* or is qualified by an owner, a Union keeps one member per type in the
\* order of their first occurrences, and a Union of one type is that type
Simplified(a, b) ==
    CASE a.k = "Name" ->
           b = a \/ (b.k = "Attribute" /\ b.attr = a.id /\ b.value.k = "Name")
      [] a.k = "Attribute" ->
           b.k = "Attribute" /\ b.attr = a.attr /\ Simplified(a.value, b.value)
      [] a.k = "Tuple" ->
           /\ b.k = "Tuple" /\ DOMAIN b.elts = DOMAIN a.elts
           /\ \A i \in DOMAIN a.elts : Simplified(a.elts[i], b.elts[i])
      [] a.k = "Subscript" ->
           IF IsUnion(a)
           THEN LET A == UnionMembers(a)
                    FirstOf(B, j) ==
                        CHOOSE i \in DOMAIN A :
                           /\ Simplified(A[i], B[j])
                           /\ \A x \in DOMAIN A : Simplified(A[x], B[j]) => i <= x
                IN \/ \A i \in DOMAIN A : Simplified(A[i], b)
                   \/ /\ IsUnion(b) /\ b.slice.k = "Tuple"
                      /\ LET B == b.slice.elts
                         IN /\ Len(B) >= 2
                            /\ \A i, j \in DOMAIN B : i # j => B[i] # B[j]
                            /\ \A i \in DOMAIN A : \E j \in DOMAIN B : Simplified(A[i], B[j])
                            /\ \A j \in DOMAIN B : \E i \in DOMAIN A : Simplified(A[i], B[j])
                            /\ \A i, j \in DOMAIN B : i < j => FirstOf(B, i) < FirstOf(B, j)
           ELSE /\ b.k = "Subscript"
                /\ Simplified(a.value, b.value)
                /\ Simplified(a.slice, b.slice)
      [] OTHER -> b = a

RECURSIVE NoRepeatedMember(_)
\* no Union of the expression names a type twice or has one member only
NoRepeatedMember(e) ==
    CASE e.k = "Subscript" ->
           /\ NoRepeatedMember(e.value) /\ NoRepeatedMember(e.slice)
           /\ IsUnion(e) =>
                /\ Len(UnionMembers(e)) # 1
                /\ \A i, j \in DOMAIN UnionMembers(e) :
                     i # j => UnionMembers(e)[i] # UnionMembers(e)[j]
      [] e.k = "Tuple" -> \A i \in DOMAIN e.elts : NoRepeatedMember(e.elts[i])
      [] e.k = "Attribute" -> NoRepeatedMember(e.value)
      [] OTHER -> TRUE

\* C4: after union simplification, no Union of any field's type expression
\* names a (qualified) enumeration type more than once, the members that
\* remain are in the order they had, and a Union left with one member has
\* been replaced by that member.
C4_UnionsCollapsed ==
    (last = "simplify" /\ err = "none") =>
      /\ DOMAIN Models(ast_tree) = DOMAIN Models(before)
      /\ \A k \in DOMAIN Models(before) :
           LET c == Models(before)[k]
               d == Models(ast_tree)[k]
           IN \A j \in DOMAIN c.body :
                c.body[j].k = "Field" =>
                  /\ j \in DOMAIN d.body /\ d.body[j].k = "Field"
                  /\ d.body[j].name = c.body[j].name
                  /\ Simplified(c.body[j].ann, d.body[j].ann)
                  /\ NoRepeatedMember(d.body[j].ann)

\* Union[Status, Status] has become the bare Book.Status
C4_Witness ==
    /\ last = "simplify" /\ err = "none"
    /\ \E k \in DOMAIN Models(before) : \E j \in DOMAIN Models(before)[k].body :
         /\ Models(before)[k].body[j] =
              Field("status", Union(<<Name(W("Status")), Name(W("Status"))>>))
         /\ Models(ast_tree)[k].body[j] =
              Field("status", Attribute(Name(W("Book")), W("Status")))

\* Union[str, Status, Status] has become Union[str, Book.Status]
C4_ReachedUnion ==
    /\ last = "simplify" /\ err = "none"
    /\ \E k \in DOMAIN Models(before) : \E j \in DOMAIN Models(before)[k].body :
         /\ Models(before)[k].body[j] =
              Field("status", Union(<<Str, Name(W("Status")), Name(W("Status"))>>))
         /\ Models(ast_tree)[k].body[j] =
              Field("status", Union(<<Str, Attribute(Name(W("Book")), W("Status"))>>))

====
